---------------------------- MODULE Spec2Model ----------------------------
(***************************************************************************)
(* A model of src/main.py: the house lookup (get_planet_house), the equal  *)
(* house cusps and the Julian Day / sidereal time computation of           *)
(* create_advanced_fallback_chart, and the chart handlers around them.     *)
(*                                                                         *)
(* Angles are held as whole numbers of ticks, TicksPerDegree ticks to the  *)
(* degree, so that 359.5 degrees is a value of the model.                  *)
(***************************************************************************)
EXTENDS Integers, Sequences, FiniteSets, TLC

VARIABLES
    houses,     \* the twelve cusps handed to get_planet_house (1-based here)
    call,       \* the last get_planet_house call: its longitude and its return
    pokes,      \* how many cusps were overwritten by hand (SpecLocate only)
    SWISSEPH_AVAILABLE, \* the module-level flag of lines 44-50
    ephe,       \* what the swisseph library does when it is called
    first,      \* the first request handled and its outcome
    last        \* the latest request handled after it and its outcome

vars == <<houses, call, pokes, SWISSEPH_AVAILABLE, ephe, first, last>>

-----------------------------------------------------------------------------
(* Bounds of the model *)

TicksPerDegree == 2
MaxPokes == 2

Circle == 360 * TicksPerDegree
Deg(d) == d * TicksPerDegree

-----------------------------------------------------------------------------
(* get_planet_house, src/main.py 146-163 *)

\* The test of lines 155-160 with the wrap branch joined by "and".
InHouseWrapAnd(planet_lon, house_start, house_end) ==
    IF house_start < house_end
    THEN house_start <= planet_lon /\ planet_lon < house_end
    ELSE planet_lon >= house_start /\ planet_lon < house_end

\* The test of lines 155-160 with the end of the interval included.
InHouseClosed(planet_lon, house_start, house_end) ==
    IF house_start < house_end
    THEN house_start <= planet_lon /\ planet_lon <= house_end
    ELSE planet_lon >= house_start \/ planet_lon <= house_end

\* The test of lines 155-160 with the interval open at its start and closed at
\* its end.
InHouseOpenStart(planet_lon, house_start, house_end) ==
    IF house_start < house_end
    THEN house_start < planet_lon /\ planet_lon <= house_end
    ELSE planet_lon > house_start \/ planet_lon <= house_end

\* Lines 155-160: the membership test of one house.
InHouse(planet_lon, house_start, house_end) ==
    IF house_start < house_end
    THEN house_start <= planet_lon /\ planet_lon < house_end
    ELSE planet_lon >= house_start \/ planet_lon < house_end

\* Lines 150-161: the loop over house_num = 1..12.  The Python list is 0-based,
\* houses[house_num - 1] there is houses[house_num] here.  An index past the end
\* of the list raises IndexError, which line 162 turns into house 1.
RECURSIVE HouseLoop(_, _, _)
HouseLoop(planet_lon, hs, house_num) ==
    IF house_num > 12
    THEN [house |-> 1, by |-> "default"]
    ELSE LET next_house == IF house_num < 12 THEN house_num + 1 ELSE 1
         IN  IF house_num > Len(hs) \/ next_house > Len(hs)
             THEN [house |-> 1, by |-> "except"]
             ELSE LET house_start == hs[house_num]
                      house_end == IF next_house <= 12 THEN hs[next_house] ELSE hs[1]
                  IN  IF InHouse(planet_lon, house_start, house_end)
                      THEN [house |-> house_num, by |-> "interval"]
                      ELSE HouseLoop(planet_lon, hs, house_num + 1)

\* Lines 146-163.  Python's % takes the sign of the divisor, as TLA+'s does.
get_planet_house(planet_lon, hs) == HouseLoop(planet_lon % Circle, hs, 1)

-----------------------------------------------------------------------------
(* Strings.  A Python str is a sequence of one-character strings over the  *)
(* alphabet of the request grids: digits, "/", "-", ":", " " and "x".      *)

DigitChars == {"0", "1", "2", "3", "4", "5", "6", "7", "8", "9"}

DigitVal(c) ==
    CASE c = "0" -> 0 [] c = "1" -> 1 [] c = "2" -> 2 [] c = "3" -> 3
      [] c = "4" -> 4 [] c = "5" -> 5 [] c = "6" -> 6 [] c = "7" -> 7
      [] c = "8" -> 8 [] c = "9" -> 9

\* str.isdigit(): not empty and every character a digit.
IsDigit(str) == str # <<>> /\ \A i \in DOMAIN str : str[i] \in DigitChars

RECURSIVE DecVal(_)
DecVal(str) ==
    IF str = <<>> THEN 0
    ELSE DecVal(SubSeq(str, 1, Len(str) - 1)) * 10 + DigitVal(str[Len(str)])

\* str.strip(): blanks off both ends.
RECURSIVE Strip(_)
Strip(str) ==
    IF str = <<>> THEN str
    ELSE IF str[1] = " " THEN Strip(Tail(str))
    ELSE IF str[Len(str)] = " " THEN Strip(SubSeq(str, 1, Len(str) - 1))
    ELSE str

\* int(str): blanks stripped, an optional "-", then digits; anything else
\* raises ValueError (ok = FALSE).
PyInt(str) ==
    LET t == Strip(str)
        neg == t # <<>> /\ t[1] = "-"
        u == IF neg THEN Tail(t) ELSE t
    IN  IF IsDigit(u)
        THEN [ok |-> TRUE, val |-> IF neg THEN 0 - DecVal(u) ELSE DecVal(u)]
        ELSE [ok |-> FALSE, val |-> 0]

Contains(str, c) == \E i \in DOMAIN str : str[i] = c

\* str.split(sep)
RECURSIVE Split(_, _)
Split(str, sep) ==
    IF ~Contains(str, sep) THEN <<str>>
    ELSE LET k == CHOOSE i \in DOMAIN str :
                      str[i] = sep /\ \A j \in 1..(i - 1) : str[j] # sep
         IN  <<SubSeq(str, 1, k - 1)>> \o Split(SubSeq(str, k + 1, Len(str)), sep)

\* re.sub(r'[^0-9]', '', str)
OnlyDigits(str) == SelectSeq(str, LAMBDA c : c \in DigitChars)

\* str.replace(' ', '')
NoBlanks(str) == SelectSeq(str, LAMBDA c : c # " ")

\* str.zfill(2): zeros on the left up to width 2, after a leading sign.
ZFill2(str) ==
    IF Len(str) >= 2 THEN str
    ELSE IF str = <<>> THEN <<"0", "0">>
    ELSE IF str[1] = "-" THEN <<"-", "0">>
    ELSE <<"0">> \o str

-----------------------------------------------------------------------------
(* parse_date_string, src/main.py 79-106 *)

DateError == [ok |-> FALSE, year |-> 0, month |-> 0, day |-> 0]

Ymd(y, m, d) ==
    IF y.ok /\ m.ok /\ d.ok
    THEN [ok |-> TRUE, year |-> y.val, month |-> m.val, day |-> d.val]
    ELSE DateError

\* Every exception, the ValueError of int() included, leaves as ValueError.
parse_date_string(date_str) ==
    LET clean_date == OnlyDigits(date_str)
        slash == Split(date_str, "/")
        dash == Split(date_str, "-")
    IN  IF Len(clean_date) = 8
        THEN [ok |-> TRUE,
              year |-> DecVal(SubSeq(clean_date, 1, 4)),
              month |-> DecVal(SubSeq(clean_date, 5, 6)),
              day |-> DecVal(SubSeq(clean_date, 7, 8))]
        ELSE IF Contains(date_str, "/") /\ Len(slash) = 3
        THEN IF Len(slash[1]) = 4
             THEN Ymd(PyInt(slash[1]), PyInt(slash[2]), PyInt(slash[3]))
             ELSE Ymd(PyInt(slash[3]), PyInt(slash[1]), PyInt(slash[2]))
        ELSE IF Contains(date_str, "-") /\ Len(dash) = 3
        THEN Ymd(PyInt(dash[1]), PyInt(dash[2]), PyInt(dash[3]))
        ELSE DateError

-----------------------------------------------------------------------------
(* parse_time_string, src/main.py 108-132 *)

Noon == [hour |-> 12, minute |-> 0]

\* Lines 110-132 with the value of lines 129 and 132 named dflt.  A string
\* with ":" has at least two parts; int() of a part that is no number raises,
\* and line 131 turns any exception into the default.
ParseTime(time_str, dflt) ==
    LET clean_time == NoBlanks(Strip(time_str))
        parts == Split(clean_time, ":")
    IN  IF Contains(clean_time, ":")
        THEN IF PyInt(parts[1]).ok /\ PyInt(parts[2]).ok
             THEN [hour |-> PyInt(parts[1]).val, minute |-> PyInt(parts[2]).val]
             ELSE dflt
        ELSE IF Len(clean_time) = 4 /\ IsDigit(clean_time)
        THEN [hour |-> DecVal(SubSeq(clean_time, 1, 2)),
              minute |-> DecVal(SubSeq(clean_time, 3, 4))]
        ELSE IF Len(clean_time) <= 2 /\ IsDigit(clean_time)
        THEN [hour |-> DecVal(clean_time), minute |-> 0]
        ELSE dflt

\* The default is the time of the request before instead of 12:00.
parse_time_string_sticky(time_str) ==
    ParseTime(time_str, IF last.status # "none"
                        THEN [hour |-> last.hour, minute |-> last.minute]
                        ELSE IF first.status # "none"
                        THEN [hour |-> first.hour, minute |-> first.minute]
                        ELSE Noon)

parse_time_string(time_str) == ParseTime(time_str, Noon)

-----------------------------------------------------------------------------
(* Julian Day, src/main.py 274-292 *)

\* int(num / den) of Python: the fraction is cut off towards zero.
PyIntTrunc(num, den) ==
    IF num >= 0 THEN num \div den ELSE 0 - ((0 - num) \div den)

\* Lines 274-282: a field out of range is replaced.  The day is only held to
\* 1..31, whatever the month.
Validated(d, t) ==
    [year |-> d.year,
     month |-> IF 1 <= d.month /\ d.month <= 12 THEN d.month ELSE 1,
     day |-> IF 1 <= d.day /\ d.day <= 31 THEN d.day ELSE 1,
     hour |-> IF 0 <= t.hour /\ t.hour <= 23 THEN t.hour ELSE 12,
     minute |-> IF 0 <= t.minute /\ t.minute <= 59 THEN t.minute ELSE 0]

\* Lines 285-292.  365.25 is 1461/4 and 30.6001 is 306001/10000.  The value
\* JD of the code is jdn - 0.5 + min/1440 days: jdn is the whole part of
\* int(..) + int(..) + day + B - 1524.5 + 0.5 and min the minutes of
\* (hour + minute/60)/24, which lines 274-282 keep in 0..1439.
JulianDay(v) ==
    LET year == IF v.month <= 2 THEN v.year - 1 ELSE v.year
        month == IF v.month <= 2 THEN v.month + 12 ELSE v.month
        A == year \div 100
        B == 2 - A + A \div 4
    IN  [jdn |-> PyIntTrunc(1461 * (year + 4716), 4)
                   + PyIntTrunc(306001 * (month + 1), 10000) + v.day + B - 1524,
         min |-> 60 * v.hour + v.minute]

NoJD == [jdn |-> 0, min |-> 0]

-----------------------------------------------------------------------------
(* Sidereal time, src/main.py 357-360.  An angle modulo 360 degrees is     *)
(* held exactly, as h * 10^12 + m * 10^6 + l units of 10^-11/1440 degree,  *)
(* so that the rate for one minute, 360.98564736629/1440 degrees, is a     *)
(* whole number of units and every step stays below 2^31.  360 degrees are *)
(* 51840 * 10^12 units: x % 360 reduces the high limb modulo 51840.        *)

Limb == 10^6
FullH == 360 * 144

ZeroAngle == [h |-> 0, m |-> 0, l |-> 0]

\* (x + y) % 360
AddA(x, y) ==
    LET l == x.l + y.l
        m == x.m + y.m + l \div Limb
    IN  [h |-> (x.h + y.h + m \div Limb) % FullH, m |-> m % Limb, l |-> l % Limb]

\* (x * c) % 360 for 0 <= c <= 2000
ScaleA(x, c) ==
    LET l == x.l * c
        m == x.m * c + l \div Limb
    IN  [h |-> (x.h * c + m \div Limb) % FullH, m |-> m % Limb, l |-> l % Limb]

\* (-x) % 360
NegA(x) ==
    LET l == 0 - x.l
        m == 0 - x.m + l \div Limb
    IN  [h |-> (0 - x.h + m \div Limb) % FullH, m |-> m % Limb, l |-> l % Limb]

\* (x * n) % 360 for 0 <= n < 10^9, by the digits of n to the base 1000
TimesNat(x, n) ==
    AddA(ScaleA(AddA(ScaleA(ScaleA(x, n \div 1000000), 1000),
                     ScaleA(x, (n \div 1000) % 1000)), 1000),
         ScaleA(x, n % 1000))

\* (x * n) % 360 for any integer n, as Python's % gives it
TimesA(x, n) == IF n >= 0 THEN TimesNat(x, n) ELSE NegA(TimesNat(x, 0 - n))

\* 280.46061837 degrees
GMST_AT_EPOCH == ScaleA([h |-> 28, m |-> 46061, l |-> 837000], 1440)
\* 360.98564736629 degrees a day, for one minute and for one day
GMST_PER_MINUTE == [h |-> 36, m |-> 98564, l |-> 736629]
GMST_PER_DAY == ScaleA(GMST_PER_MINUTE, 1440)
\* 0.25 degree: the request grids hold longitudes in quarter degrees, and
\* (hour + minute/60) * 15 degrees is 60*hour + minute quarter degrees.
QUARTER_DEGREE == [h |-> 36, m |-> 0, l |-> 0]

\* Line 358: (280.46061837 + 360.98564736629 * (JD - 2451545.0)) % 360, the
\* days since the epoch taken as whole days and minutes from noon.
GMST0(JD) ==
    AddA(GMST_AT_EPOCH,
         AddA(TimesA(GMST_PER_DAY, JD.jdn - 2451545),
              TimesA(GMST_PER_MINUTE, JD.min - 720)))

\* Lines 359-360: LST = (GMST0 + longitude + (hour + minute/60.0) * 15) % 360
LocalSidereal(JD, longitude, hour, minute) ==
    AddA(AddA(GMST0(JD), TimesA(QUARTER_DEGREE, longitude)),
         TimesA(QUARTER_DEGREE, 60 * hour + minute))

-----------------------------------------------------------------------------
(* The equal house cusps, src/main.py 384-388 *)

\* Cusps 40 degrees apart instead of 30.
EqualHouses40(asc_lon) ==
    [i \in 1..12 |-> (asc_lon + (i - 1) * Deg(40)) % Circle]

\* house_cusp = (asc_lon + i * 30) % 360 for i in range(12)
EqualHouses(asc_lon) ==
    [i \in 1..12 |-> (asc_lon + (i - 1) * Deg(30)) % Circle]

NoCall == [lon |-> 0, house |-> 0, by |-> "none"]

-----------------------------------------------------------------------------
(* The two chart computations and the handlers.  A chart is held as the    *)
(* set of bodies it has an entry for, together with the locals of the      *)
(* computation the claims are about: the validated date and time, JD and   *)
(* LST.  The longitudes themselves come out of sin, tan and atan and are   *)
(* not evaluated; SpecHouse looks every ascendant up instead.  The         *)
(* latitude enters only those and is left out of the request.              *)

\* PLANET_NAMES 0..9 of lines 37-41, in English
Planets == {"Sun", "Moon", "Mercury", "Venus", "Mars", "Jupiter", "Saturn",
            "Uranus", "Neptune", "Pluto"}
AllBodies == Planets \cup {"NorthNode", "Ascendant", "Midheaven"}

NoOutcome ==
    [status |-> "none", method |-> "none", bodies |-> {}, substituted |-> {},
     year |-> 0, month |-> 0, day |-> 0, hour |-> 0, minute |-> 0,
     JD |-> NoJD, LST |-> ZeroAngle]

\* An exception leaves the computation.
Raised == [NoOutcome EXCEPT !.status = "error"]

\* Lines 343-352: the bodies whose computation raises inside the loop and get
\* (sun_lon + hash(planet_name) % 360) % 360 instead.  For finite T nothing in
\* lines 345-349 raises (e < 1, and math.tan, math.atan and % take any finite
\* float), and with an infinite T line 305 has raised before the loop.
FallbackSubstituted == {}

\* Lines 268-411.
create_advanced_fallback_chart(birth_date, birth_time, longitude) ==
    LET d == parse_date_string(birth_date)
        v == Validated(d, parse_time_string(birth_time))
        JD == JulianDay(v)
    IN  IF ~d.ok THEN Raised
        ELSE [status |-> "success", method |-> "fallback",
              bodies |-> AllBodies, substituted |-> FallbackSubstituted,
              year |-> v.year, month |-> v.month, day |-> v.day,
              hour |-> v.hour, minute |-> v.minute,
              JD |-> JD, LST |-> LocalSidereal(JD, longitude, v.hour, v.minute)]

\* Lines 165-266.  swe.julday, swe.houses and swe.calc_ut belong to the
\* swisseph library: ephe says which of its calls raise.  A body whose
\* calc_ut raises is printed and skipped (lines 217-218, 236-237); the
\* ascendant and the midheaven are always added (lines 239-261).
calculate_swiss_ephemeris_chart(birth_date, birth_time, longitude) ==
    LET d == parse_date_string(birth_date)
        v == Validated(d, parse_time_string(birth_time))
    IN  IF ~SWISSEPH_AVAILABLE \/ ~d.ok \/ ephe.houses_raises THEN Raised
        ELSE [status |-> "success", method |-> "swiss",
              bodies |-> ((Planets \cup {"NorthNode"}) \ ephe.calc_raises)
                             \cup {"Ascendant", "Midheaven"},
              substituted |-> {},
              year |-> v.year, month |-> v.month, day |-> v.day,
              hour |-> v.hour, minute |-> v.minute,
              JD |-> NoJD, LST |-> ZeroAngle]

\* Lines 432-451 and 528-537: Swiss Ephemeris when the flag is set, and the
\* fallback when that raises; an exception of the fallback is answered with
\* status "error" (lines 499-504, 555-560).
ChartData(birth_date, birth_time, longitude) ==
    LET swiss == calculate_swiss_ephemeris_chart(birth_date, birth_time, longitude)
    IN  IF SWISSEPH_AVAILABLE /\ swiss.status = "success" THEN swiss
        ELSE create_advanced_fallback_chart(birth_date, birth_time, longitude)

\* Lines 510-526: the date of a /chart request is rewritten to digits.
CleanDate(date) ==
    LET clean_date == OnlyDigits(date)
        slash == Split(date, "/")
        dash == Split(date, "-")
    IN  IF Len(clean_date) = 8 THEN clean_date
        ELSE IF Contains(date, "/")
        THEN IF Len(slash) # 3 THEN clean_date
             ELSE IF Len(slash[1]) = 4
             THEN slash[1] \o ZFill2(slash[2]) \o ZFill2(slash[3])
             ELSE slash[3] \o ZFill2(slash[1]) \o ZFill2(slash[2])
        ELSE IF Contains(date, "-") /\ Len(dash) = 3
        THEN dash[1] \o ZFill2(dash[2]) \o ZFill2(dash[3])
        ELSE clean_date

\* POST /chart, lines 506-560.  req.tz is never read.
analyze_chart(req) == ChartData(CleanDate(req.date), req.time, req.lon)

\* POST /analyze, lines 422-504, for a list of one user.
analyze_user_chart(req) == ChartData(req.date, req.time, req.lon)

Outcome(req) ==
    IF req.endpoint = "chart" THEN analyze_chart(req) ELSE analyze_user_chart(req)

\* The request and what the handler made of it.
Handled(req) == [req |-> req] @@ Outcome(req)

NoRequest == [endpoint |-> "none", date |-> <<>>, time |-> <<>>, lon |-> 0, tz |-> 0]
Nothing == [req |-> NoRequest] @@ NoOutcome

\* A library that never raises.
QuietEphe == [houses_raises |-> FALSE, calc_raises |-> {}]

-----------------------------------------------------------------------------
(* Request grids.  A /chart request carries tz (hours), a user of /analyze *)
(* has no such field: tz is 0 there.  lon is in quarter degrees.           *)

Requests(dates, times, lons, tzs) ==
    [endpoint : {"chart"}, date : dates, time : times, lon : lons, tz : tzs]
        \cup [endpoint : {"analyze"}, date : dates, time : times, lon : lons, tz : {0}]

\* The date and time strings of the grids
D20000101 == <<"2", "0", "0", "0", "0", "1", "0", "1">>
D19991231 == <<"1", "9", "9", "9", "1", "2", "3", "1">>
D20000228 == <<"2", "0", "0", "0", "0", "2", "2", "8">>
D20000229 == <<"2", "0", "0", "0", "0", "2", "2", "9">>
D20000301 == <<"2", "0", "0", "0", "0", "3", "0", "1">>
D21000228 == <<"2", "1", "0", "0", "0", "2", "2", "8">>
D21000301 == <<"2", "1", "0", "0", "0", "3", "0", "1">>
D20000230 == <<"2", "0", "0", "0", "0", "2", "3", "0">>
D20001301 == <<"2", "0", "0", "0", "1", "3", "0", "1">>
D20000100 == <<"2", "0", "0", "0", "0", "1", "0", "0">>
DDASH == <<"2", "0", "0", "0", "-", "1", "-", "1">>
DBCE0229 == <<"2", "/", "2", "9", "/", "-", "4", "7", "1", "6">>
DBCE0301 == <<"3", "/", "1", "/", "-", "4", "7", "1", "6">>
DBCE5000 == <<"1", "/", "1", "/", "-", "5", "0", "0", "0">>
DBAD == <<"x">>
D20240229 == <<"2", "0", "2", "4", "0", "2", "2", "9">>
T0000 == <<"0", "0", ":", "0", "0">>
T1200 == <<"1", "2", ":", "0", "0">>
T2000 == <<"2", "0", ":", "0", "0">>
T2359 == <<"2", "3", ":", "5", "9">>
T2400 == <<"2", "4", ":", "0", "0">>
T1260 == <<"1", "2", ":", "6", "0">>
TBAD == <<"x">>
TDIGITS == <<"1", "2", "3", "0">>
T1830 == <<"1", "8", ":", "3", "0">>
T0600 == <<" ", "6", ":", "0", "0">>

DatesJD ==
    {D20000101, D19991231, D20000228, D20000229, D20000301, D21000228, D21000301,
     D20000230, D20001301, D20000100, DDASH, DBCE0229, DBCE0301, DBCE5000, DBAD}

TimesJD == {T0000, T1200, T2000, T2359, T2400, T1260, TBAD, TDIGITS}

RequestsJD == Requests(DatesJD, TimesJD, {0}, {0, 8})

-----------------------------------------------------------------------------
(* SpecJD: the date and time conversion of the fallback computation, with  *)
(* no swisseph installed.  Two requests are handled, so that two           *)
(* conversions can be compared.                                            *)

Idle == houses = EqualHouses(0) /\ call = NoCall /\ pokes = 0

InitJD ==
    /\ Idle
    /\ SWISSEPH_AVAILABLE = FALSE
    /\ ephe = QuietEphe
    /\ first = Nothing
    /\ last = Nothing

\* The first request goes to first, every later one to last.
Record(req) ==
    /\ IF first.status = "none"
       THEN first' = Handled(req) /\ UNCHANGED last
       ELSE last' = Handled(req) /\ UNCHANGED first
    /\ UNCHANGED <<houses, call, pokes, SWISSEPH_AVAILABLE, ephe>>

Convert(req) == last.status = "none" /\ Record(req)

NextJD == \E req \in RequestsJD : Convert(req)

SpecJD == InitJD /\ [][NextJD]_vars

-----------------------------------------------------------------------------
(* SpecChart: the service.  The flag of lines 44-50 is set when the module *)
(* is loaded and the library behaves one way for the whole run; requests   *)
(* follow one another, the first is kept and last is the latest.           *)

EpheKinds ==
    [houses_raises : BOOLEAN, calc_raises : {{}, {"Pluto"}, {"Moon", "NorthNode"}}]

RequestsChart ==
    Requests({D20000101, D20240229}, {T1200, T1830, TBAD}, {0, 486}, {8})

InitChart ==
    /\ Idle
    /\ SWISSEPH_AVAILABLE \in BOOLEAN
    /\ ephe \in (IF SWISSEPH_AVAILABLE THEN EpheKinds ELSE {QuietEphe})
    /\ first = Nothing
    /\ last = Nothing

\* POST /chart
AnalyzeChart(req) == req.endpoint = "chart" /\ Record(req)

\* POST /analyze
AnalyzeUserChart(req) == req.endpoint = "analyze" /\ Record(req)

NextChart ==
    \E req \in RequestsChart : AnalyzeChart(req) \/ AnalyzeUserChart(req)

SpecChart == InitChart /\ [][NextChart]_vars

-----------------------------------------------------------------------------
(* SpecHouse: the lookup on the cusps the fallback chart builds, for every *)
(* ascendant of the grid.  The test of a house compares the longitude with *)
(* two cusps, so the longitudes looked up are every cusp with the tick     *)
(* before and after it, both ends of [0,360), and every fifth degree.      *)

LonsOf(hs) ==
    {0, Circle - 1}
        \cup {Deg(5) * k : k \in 0..71}
        \cup UNION {{(hs[i] + Circle - 1) % Circle, hs[i], (hs[i] + 1) % Circle} :
                      i \in 1..12}

InitHouse ==
    /\ \E asc_lon \in 0..(Circle - 1) : houses = EqualHouses(asc_lon)
    /\ call = NoCall
    /\ pokes = 0
    /\ SWISSEPH_AVAILABLE = FALSE /\ ephe = QuietEphe
    /\ first = Nothing /\ last = Nothing

\* Lines 392-396: one body's longitude is looked up in the cusps.
Locate(lon) ==
    /\ call.by = "none"
    /\ call' = [lon |-> lon] @@ get_planet_house(lon, houses)
    /\ UNCHANGED <<houses, pokes, SWISSEPH_AVAILABLE, ephe, first, last>>

NextHouse == \E lon \in LonsOf(houses) : Locate(lon)

SpecHouse == InitHouse /\ [][NextHouse]_vars

-----------------------------------------------------------------------------
(* SpecLocate: the lookup as a function of any twelve cusps in [0,360).    *)
(* The cusps start as equal houses and up to MaxPokes of them are then     *)
(* overwritten with any value of CuspGrid, so they need not be ordered.    *)

AscGrid == {0, Deg(90) + 1, Deg(330), Circle - 1}
CuspGrid == {0, Deg(30), Deg(200), Deg(330), Circle - 1}
LonGrid == {0, 1, Deg(15), Deg(30), Deg(100), Deg(200), Deg(330) - 1,
            Deg(330), Deg(345), Circle - 1}

InitLocate ==
    /\ \E asc_lon \in AscGrid : houses = EqualHouses(asc_lon)
    /\ call = NoCall
    /\ pokes = 0
    /\ SWISSEPH_AVAILABLE = FALSE /\ ephe = QuietEphe
    /\ first = Nothing /\ last = Nothing

\* A caller hands over cusps of its own: cusp i is set to v.
Poke(i, v) ==
    /\ call.by = "none"
    /\ pokes < MaxPokes
    /\ houses' = [houses EXCEPT ![i] = v]
    /\ pokes' = pokes + 1
    /\ UNCHANGED <<call, SWISSEPH_AVAILABLE, ephe, first, last>>

NextLocate ==
    \/ \E i \in 1..12, v \in CuspGrid : Poke(i, v)
    \/ \E lon \in LonGrid : Locate(lon)

SpecLocate == InitLocate /\ [][NextLocate]_vars

-----------------------------------------------------------------------------
(* Claims about the house lookup *)

Called == call.by # "none"

NextCusp(hs, i) == hs[IF i < 12 THEN i + 1 ELSE 1]

\* The houses whose membership test the longitude passes.
Claimants(lon, hs) == {i \in 1..12 : InHouse(lon, hs[i], NextCusp(hs, i))}

\* The reference rule of the house locator for house i: end <= start makes the
\* end end+360 and lifts a longitude below start by 360.
RefMember(lon, hs, i) ==
    LET start == hs[i]
        end0 == NextCusp(hs, i)
        end == IF end0 <= start THEN end0 + Circle ELSE end0
        l == IF end0 <= start /\ lon < start THEN lon + Circle ELSE lon
    IN  start <= l /\ l < end

\* C1: on the cusps of the house computation every longitude in [0,360) gets
\* a house in 1..12, returned because the longitude lies in that house's
\* interval, never through the default after the loop or the except branch.
C1_Total ==
    Called => /\ call.by = "interval"
              /\ call.house \in 1..12
              /\ RefMember(call.lon, houses, call.house)

\* A lookup in the house that wraps past 0 on cusps that do not start at 0.
C1_Witness ==
    /\ Called
    /\ houses[1] = Deg(100)
    /\ call.lon = 0
    /\ call.house = 9
    /\ houses[9] > houses[10]

\* The length of the half-open interval [start, end), wrapping past 360.
IntervalLen(start, end) == IF end <= start THEN end + Circle - start ELSE end - start

RECURSIVE SumLen(_, _)
SumLen(hs, i) ==
    IF i = 0 THEN 0 ELSE IntervalLen(hs[i], NextCusp(hs, i)) + SumLen(hs, i - 1)

\* C2: the twelve intervals of the equal house cusps have lengths that sum to
\* 360 degrees, the first cusp is the ascendant and each next one 30 degrees on,
\* and no longitude passes the membership test of two houses.
C2_Partition ==
    /\ SumLen(houses, 12) = Circle
    /\ \A i \in 1..12 : houses[i] = (houses[1] + (i - 1) * Deg(30)) % Circle
    /\ Called => Cardinality(Claimants(call.lon, houses)) <= 1

\* A lookup at a cusp itself, the point two neighbouring intervals meet at.
C2_Witness ==
    /\ Called
    /\ houses[1] = Deg(345)
    /\ call.lon = houses[2]
    /\ Claimants(call.lon, houses) = {2}

\* C3: the lookup returns a house the reference rule accepts, the first such
\* house in the order 1..12; 359.5 degrees on the cusps 0, 30, .., 330 is in
\* house 12.
C3_Reference ==
    Called =>
        /\ call.by = "interval"
        /\ RefMember(call.lon, houses, call.house)
        /\ \A j \in 1..12 : RefMember(call.lon, houses, j) => call.house <= j
        /\ (houses = EqualHouses(0) /\ 2 * call.lon = 719 * TicksPerDegree)
               => call.house = 12

\* The example of the claim: 359.5 degrees, house 12 from 330, house 1 from 0.
C3_Witness ==
    /\ Called
    /\ houses[12] = Deg(330)
    /\ houses[1] = 0
    /\ 2 * call.lon = 719 * TicksPerDegree
    /\ call.house = 12
    /\ call.by = "interval"

\* C11: the ascendant of the fallback chart is given house 1.  Line 377 puts
\* asc_lon among the positions, lines 385-388 build the cusps from the same
\* asc_lon, and line 396 looks it up in them: the longitude looked up is the
\* first cusp, also for an ascendant in [330,360), where the second cusp has
\* wrapped past 0 and is the smaller one.
C11_AscendantFirst ==
    (Called /\ call.lon = houses[1]) => call.house = 1

\* The ascendant at 345 degrees looked up in its own cusps: the first house
\* runs from 345 past 0 to 15 degrees.
C11_Witness ==
    /\ Called
    /\ houses[1] = Deg(345)
    /\ houses[2] = Deg(15)
    /\ call.lon = houses[1]
    /\ call.house = 1
    /\ call.by = "interval"

-----------------------------------------------------------------------------
(* Claims about the Julian Day *)

LeapYear(y) == y % 4 = 0 /\ (y % 100 # 0 \/ y % 400 = 0)

DaysIn(y, m) ==
    IF m \in {4, 6, 9, 11} THEN 30
    ELSE IF m = 2 THEN (IF LeapYear(y) THEN 29 ELSE 28)
    ELSE 31

\* The date and time a request states, before any replacement; a time that
\* is no time is marked by 99:99.
Given(req) ==
    LET d == parse_date_string(IF req.endpoint = "chart" THEN CleanDate(req.date)
                                                          ELSE req.date)
        t == ParseTime(req.time, [hour |-> 99, minute |-> 99])
    IN  [ok |-> d.ok, year |-> d.year, month |-> d.month, day |-> d.day,
         hour |-> t.hour, minute |-> t.minute]

ValidInstant(g) ==
    /\ g.ok
    /\ g.month \in 1..12
    /\ g.day \in 1..DaysIn(g.year, g.month)
    /\ g.hour \in 0..23
    /\ g.minute \in 0..59

\* The Julian Day of the formula, with floor: jdn - 0.5 + min/1440 days.
FormulaJD(g) ==
    LET year == IF g.month <= 2 THEN g.year - 1 ELSE g.year
        month == IF g.month <= 2 THEN g.month + 12 ELSE g.month
        A == year \div 100
        B == 2 - A + A \div 4
    IN  [jdn |-> (1461 * (year + 4716)) \div 4 + (306001 * (month + 1)) \div 10000
                   + g.day + B - 1524,
         min |-> 60 * g.hour + g.minute]

J2000 == [jdn |-> 2451545, min |-> 720]

\* JD + k minutes
ShiftMinutes(JD, k) ==
    [jdn |-> JD.jdn + (JD.min + k) \div 1440, min |-> (JD.min + k) % 1440]

JDLess(a, b) == a.jdn < b.jdn \/ (a.jdn = b.jdn /\ a.min < b.min)

Computed(x) == x.status = "success" /\ x.method = "fallback"

\* C4: for a valid date and time with UTC offset 0 the Julian Day of the
\* fallback computation is the one of the Gregorian formula with floor, and
\* 2000-01-01 12:00 gives 2451545.0.
C4_Formula ==
    \A x \in {first, last} :
        (Computed(x) /\ ValidInstant(Given(x.req)) /\ x.req.tz = 0)
            => /\ x.JD = FormulaJD(Given(x.req))
               /\ (x.req.date = D20000101 /\ x.req.time = T1200) => x.JD = J2000

\* C5: the Julian Day is in UT: the calendar value of the local date and time
\* less tz/24, so that two requests for the same UT moment get the same value.
C5_UT ==
    /\ \A x \in {first, last} :
           (Computed(x) /\ ValidInstant(Given(x.req)))
               => x.JD = ShiftMinutes(JulianDay(Given(x.req)), 0 - 60 * x.req.tz)
    /\ (/\ Computed(first) /\ ValidInstant(Given(first.req))
        /\ Computed(last) /\ ValidInstant(Given(last.req))
        /\ ShiftMinutes(JulianDay(Given(first.req)), 0 - 60 * first.req.tz)
             = ShiftMinutes(JulianDay(Given(last.req)), 0 - 60 * last.req.tz))
           => first.JD = last.JD

\* (year, month, day, hour, minute) of g before that of k
LexBefore(g, k) ==
    \/ g.year < k.year
    \/ g.year = k.year /\ g.month < k.month
    \/ g.year = k.year /\ g.month = k.month /\ g.day < k.day
    \/ g.year = k.year /\ g.month = k.month /\ g.day = k.day /\ g.hour < k.hour
    \/ /\ g.year = k.year /\ g.month = k.month /\ g.day = k.day /\ g.hour = k.hour
       /\ g.minute < k.minute

\* C6: of two valid dates and times with the same UTC offset, the later one
\* gets the greater Julian Day.
C6_Monotone ==
    (/\ Computed(first) /\ ValidInstant(Given(first.req))
     /\ Computed(last) /\ ValidInstant(Given(last.req))
     /\ first.req.tz = last.req.tz
     /\ LexBefore(Given(first.req), Given(last.req)))
        => JDLess(first.JD, last.JD)

\* C7: a request whose month, day, hour or minute is out of range gets an
\* error, not a chart.
C7_InvalidFails ==
    \A x \in {first, last} :
        (x.status # "none" /\ ~ValidInstant(Given(x.req))) => x.status = "error"

\* From the year -4715 on, where year + 4716 is not negative after the shift
\* of January and February, int() and floor agree: the Julian Day is the one of
\* the formula, and it grows with the date and time.
AgreesFromMinus4715 ==
    \A x \in {first, last} :
        (Computed(x) /\ ValidInstant(Given(x.req)) /\ Given(x.req).year >= -4715)
            => x.JD = FormulaJD(Given(x.req))

MonotoneFromMinus4715 ==
    (Given(first.req).year >= -4715 /\ Given(last.req).year >= -4715) => C6_Monotone

-----------------------------------------------------------------------------
(* Claims about the chart *)

\* C8: a chart that is returned holds every supported body with its own
\* computed longitude.
C8_AllOrNothing ==
    \A x \in {first, last} :
        x.status = "success" => x.bodies = AllBodies /\ x.substituted = {}

C10_SiderealTime ==
    \A x \in {first, last} :
        Computed(x) => x.LST = AddA(GMST0(x.JD), TimesA(QUARTER_DEGREE, x.req.lon))

=============================================================================
